---- MODULE Spec2Model ----
(***************************************************************************)
(* A model of rclone-backup.py: one invocation of the backup agent (log    *)
(* rotation, self-update with re-exec, then one job per configured backup  *)
(* type: remote check, source resolution, compress, upload, retention      *)
(* pruning, audit row), and the rotation of the local log across runs.     *)
(*                                                                         *)
(* The process of the script is single threaded; `pc` is its position.     *)
(* External tools (tar, rclone, the spreadsheet API, the HTTP fetch) are   *)
(* the environment: each call's outcome is chosen by \E in the action      *)
(* that makes the call.  The script is taken to run as root, as its own    *)
(* paths (/var/log, apt, chown root:) require, so writing the script file, *)
(* chmod, chown and execv succeed.                                         *)
(***************************************************************************)
EXTENDS Integers, Sequences, FiniteSets, TLC

VARIABLES
    pc,             \* position of the process in the script
    runs,           \* number of process starts so far (cron start or execv)
    exit_code,      \* "none" while running, else 0 or 1
    status,         \* the module-level variable `status`
    logs,           \* LOG_FILE (index 0) and LOG_FILE.1 .. LOG_FILE.10: the run
                    \* that wrote each file, 0 when the file does not exist
    script_file,    \* content (bytes) of the script file on disk
    remote_script,  \* content served at REMOTE_SCRIPT_URL
    stale,          \* this process found its script to differ from the remote
    updates,        \* number of overwrites of the script file so far
    backup_types,   \* config["backup_types"]
    job,            \* 1-based index of the loop over backup_types
    fs,             \* local directories the current job looks at
    source,         \* the variable `source`
    scratch,        \* jobs whose /tmp/{backup_name}.tar.gz exists
    archived,       \* jobs for which compress_source returned a path
    remote,         \* rclone lsf of the current job's destination, oldest first
    tab,            \* the spreadsheet tab of the current job
    rows,           \* data rows appended by this run: <<job, status>>
    api_failed,     \* a spreadsheet call of this run raised
    upload,         \* outcome of the current job's rclone copy
    prune_log,      \* what the retention step of the current job saw and did
    alias,          \* what the last `rclone listremotes` of this process showed
    remote_script_content   \* that variable of self_update_script

vars == <<pc, runs, exit_code, status, logs, script_file, remote_script,
          stale, updates, backup_types, job, fs, source, scratch, archived,
          remote, tab, rows, api_failed, upload, prune_log, alias,
          remote_script_content>>

(***************************************************************************)
(* Program constants                                                       *)
(***************************************************************************)
BACKUP_KEEP_COUNT == 5
MAX_LOG_ARCHIVES == 10

(***************************************************************************)
(* Bounds of the model                                                     *)
(***************************************************************************)
MaxRuns == 3        \* process starts of one invocation (1 + re-execs)
MaxJobs == 2        \* length of config["backup_types"]
MaxRemote == 7      \* files at a destination when a job begins
MaxLogRuns == 12    \* process starts in the specification of repeated runs

Min(a, b) == IF a < b THEN a ELSE b
Max(a, b) == IF a > b THEN a ELSE b

(***************************************************************************)
(* Script text.  A text is a sequence of characters; "CR" and "LF" are the *)
(* two line-end characters, "a" and "b" stand for the rest of a version.   *)
(***************************************************************************)
\* The value None of remote_script_content (no text holds this character),
\* and the variable before self_update_script has assigned it.
None == <<"None">>
Unset == <<"unset">>
V1 == <<"a", "LF">>
V1crlf == <<"a", "CR", "LF">>
V2 == <<"b", "LF">>
V2crlf == <<"b", "CR", "LF">>
LocalScripts == {V1, V1crlf}
RemoteScripts == {<<>>, V1, V2, V2crlf}

\* open(path, "r").read(): text mode with universal newlines, which turns
\* "\r\n" and a lone "\r" into "\n".
RECURSIVE read_text(_)
read_text(bytes) ==
    IF bytes = <<>> THEN <<>>
    ELSE IF Head(bytes) = "CR"
         THEN IF Len(bytes) >= 2 /\ bytes[2] = "LF"
              THEN <<"LF">> \o read_text(SubSeq(bytes, 3, Len(bytes)))
              ELSE <<"LF">> \o read_text(Tail(bytes))
         ELSE <<Head(bytes)>> \o read_text(Tail(bytes))

\* open(path, "w").write(text): text mode, which writes "\n" as os.linesep
\* ("\n" on Linux) and every other character, "\r" included, as it is.
RECURSIVE write_text(_)
write_text(text) ==
    IF text = <<>> THEN <<>>
    ELSE (IF Head(text) = "LF" THEN <<"LF">> ELSE <<Head(text)>>)
         \o write_text(Tail(text))

\* hashlib.sha256(...).hexdigest(): distinct texts get distinct digests.
CharCode(c) == CASE c = "a" -> 1 [] c = "b" -> 2 [] c = "CR" -> 3 [] c = "LF" -> 4
RECURSIVE sha256(_)
sha256(text) ==
    IF text = <<>> THEN 0 ELSE CharCode(Head(text)) + 5 * sha256(Tail(text))

\* get_remote_script_content: the response text, or None when the request
\* raises.
get_remote_script_content(fetched) == IF fetched THEN remote_script ELSE None

\* self_update_script up to the log line before os.execv: whether the script
\* file is overwritten, and its content afterwards.  (The first definition is
\* the variant that overwrites without comparing the hashes, the second the
\* variant that returns early for None only, not for an empty response.)
self_update_no_compare(file, content) ==
    IF content = None \/ content = <<>>
    THEN [write |-> FALSE, file |-> file]
    ELSE [write |-> TRUE, file |-> write_text(content)]
self_update_unless_none(file, content) ==
    IF content = None
    THEN [write |-> FALSE, file |-> file]
    ELSE IF sha256(read_text(file)) # sha256(content)
         THEN [write |-> TRUE, file |-> write_text(content)]
         ELSE [write |-> FALSE, file |-> file]
self_update_script(file, content) ==
    IF content = None \/ content = <<>>
    THEN [write |-> FALSE, file |-> file]
    ELSE IF sha256(read_text(file)) # sha256(content)
         THEN [write |-> TRUE, file |-> write_text(content)]
         ELSE [write |-> FALSE, file |-> file]

(***************************************************************************)
(* Log rotation                                                            *)
(***************************************************************************)
LogIndex == 0..MAX_LOG_ARCHIVES
NoLogs == [i \in LogIndex |-> 0]

\* The loop of rotate_logs from index i down to `stop`: rename LOG_FILE.i to
\* LOG_FILE.(i+1) when it exists.
RECURSIVE shift_logs(_, _, _)
shift_logs(l, i, stop) ==
    IF i < stop THEN l
    ELSE shift_logs(IF l[i] # 0 THEN [l EXCEPT ![i + 1] = l[i], ![i] = 0] ELSE l,
                    i - 1, stop)

\* rotate_logs, called by process start number `run`, which leaves a new,
\* empty LOG_FILE of that run.  (The first definition is the variant whose
\* loop stops at index 2.)
rotate_logs_from_2(l, run) ==
    LET moved == IF l[0] # 0
                 THEN [shift_logs(l, MAX_LOG_ARCHIVES - 1, 2) EXCEPT ![1] = l[0]]
                 ELSE l
    IN [moved EXCEPT ![0] = run]
rotate_logs(l, run) ==
    LET moved == IF l[0] # 0
                 THEN [shift_logs(l, MAX_LOG_ARCHIVES - 1, 1) EXCEPT ![1] = l[0]]
                 ELSE l
    IN [moved EXCEPT ![0] = run]

(***************************************************************************)
(* Source Locator                                                          *)
(***************************************************************************)
UnifiPaths == << "/var/lib/unifi/backup/autobackup",
                 "/data/unifi/data/backup/autobackup",
                 "/srv/unifi/data/backup/autobackup",
                 "/usr/lib/unifi/data/backup/autobackup",
                 "/opt/unifi/data/backup/autobackup" >>
FixedPaths == {"/etc/dhcp", "/etc/bind", "/srv/www/gorilla/manifests",
               "/srv/www/munki/manifests"}
Paths == FixedPaths \cup {UnifiPaths[i] : i \in 1..Len(UnifiPaths)}

\* What a path is on the local file system:
\*   "absent"  nothing there
\*   "empty"   a directory with no .unf file modified in the last 7 days
\*   "fresh"   a directory with such a file
\*   "broken"  it exists, and listing it raises (not a directory, I/O error)
DirStates == {"absent", "empty", "fresh", "broken"}
NoDirs == [p \in Paths |-> "absent"]

ErrNoRecent == "[ERROR] No autobackup path with recent backups detected. Exiting."
ErrDetect == "[ERROR] detecting autobackup failure"
NoSource == "None"

\* The loop over unifi_autobackup_paths, from candidate i on.
RECURSIVE scan_unifi(_, _)
scan_unifi(f, i) ==
    IF i > Len(UnifiPaths) THEN ErrNoRecent
    ELSE CASE f[UnifiPaths[i]] = "absent" -> scan_unifi(f, i + 1)
           [] f[UnifiPaths[i]] = "broken" -> ErrDetect
           [] f[UnifiPaths[i]] = "fresh"  -> UnifiPaths[i]
           [] f[UnifiPaths[i]] = "empty"  -> scan_unifi(f, i + 1)

\* get_backup_source as called by main.  (The definitions before it are the
\* variant whose loop gives up at the first candidate that exists.)
RECURSIVE scan_first_existing(_, _)
scan_first_existing(f, i) ==
    IF i > Len(UnifiPaths) THEN ErrNoRecent
    ELSE CASE f[UnifiPaths[i]] = "absent" -> scan_first_existing(f, i + 1)
           [] f[UnifiPaths[i]] = "broken" -> ErrDetect
           [] f[UnifiPaths[i]] = "fresh"  -> UnifiPaths[i]
           [] f[UnifiPaths[i]] = "empty"  -> ErrNoRecent
get_backup_source_first_existing(backup_type, f) ==
    IF backup_type = "unifi" THEN scan_first_existing(f, 1)
    ELSE scan_unifi(f, Len(UnifiPaths) + 1)
get_backup_source(backup_type, f) ==
    CASE backup_type = "dhcp" -> "/etc/dhcp"
      [] backup_type = "dns" -> "/etc/bind"
      [] backup_type = "gorillamanifests" -> "/srv/www/gorilla/manifests"
      [] backup_type = "munkimanifests" -> "/srv/www/munki/manifests"
      [] backup_type = "unifi" -> scan_unifi(f, 1)
      [] OTHER -> NoSource

\* source.startswith("[ERROR]")
IsErrorText(src) == src \in {ErrNoRecent, ErrDetect}
\* os.path.isdir(source)
isdir(f, src) == src \in Paths /\ f[src] \in {"empty", "fresh"}

\* The names {TYPE}_SPREADSHEET_ID the module defines: exec() of the
\* assignment raises NameError for any other type.
SheetTypes == {"dhcp", "dns", "gorillamanifests", "munkimanifests", "unifi"}

(***************************************************************************)
(* Transport and retention                                                 *)
(* A file name is a sequence of parts; "pfx" stands for the job's          *)
(* site_backup_name, {site}_{type}_backup.                                 *)
(***************************************************************************)
site_backup_name == <<"pfx">>
\* backup_name of an archive with time stamp k, and two names the job did
\* not give: a copy of an archive, and an unrelated file.
ArchiveName(k) == <<"pfx", ToString(k)>>
CopyName(k) == <<"Copy of ", "pfx", ToString(k)>>
OtherName(k) == <<"notes", ToString(k)>>

\* `pattern in line`
Contains(pattern, line) ==
    \E i \in 1..(Len(line) - Len(pattern) + 1) :
        SubSeq(line, i, i + Len(pattern) - 1) = pattern
StartsWith(pattern, line) ==
    Len(line) >= Len(pattern) /\ SubSeq(line, 1, Len(pattern)) = pattern

\* rclone_list_files on the output `listing` of rclone lsf --order-by modtime
rclone_list_files(listing, pattern) ==
    SelectSeq(listing, LAMBDA line : Contains(pattern, line))

\* The listing without the files named in the set `names`
Without(listing, names) == SelectSeq(listing, LAMBDA line : line \notin names)
Range(seq) == {seq[i] : i \in 1..Len(seq)}

\* The destinations a job may find: n files, oldest first, of which only the
\* oldest may be a file the job did not name.
Listing(n, lead) ==
    [k \in 1..n |-> IF k = 1 /\ lead = "copy" THEN CopyName(k)
                    ELSE IF k = 1 /\ lead = "other" THEN OtherName(k)
                    ELSE ArchiveName(k)]
Listings ==
    {Listing(n, lead) : n \in 0..MaxRemote, lead \in {"archive", "copy", "other"}}

\* The `Manage backups` block on the destination `listing`: rclone lsf
\* succeeds or not (`listed`), and the fail_at-th rclone delete of the loop
\* exits non-zero (0: none does), which raises out of the loop.
manage_backups(listing, listed, fail_at) ==
    LET files_present == rclone_list_files(IF listed THEN listing ELSE <<>>,
                                           site_backup_name)
        delete_count == Len(files_present) - BACKUP_KEEP_COUNT
        todo == IF delete_count > 0 THEN SubSeq(files_present, 1, delete_count)
                ELSE <<>>
        stop == IF fail_at \in 1..Len(todo) THEN fail_at ELSE Len(todo) + 1
        attempted == SubSeq(todo, 1, Min(stop, Len(todo)))
        deleted == SubSeq(todo, 1, stop - 1)
    IN [done |-> TRUE, listed |-> listed, before |-> listing,
        files_present |-> files_present, attempted |-> attempted,
        deleted |-> deleted, after |-> Without(listing, Range(deleted))]
NoPrune == [done |-> FALSE, listed |-> FALSE, before |-> <<>>,
            files_present |-> <<>>, attempted |-> <<>>, deleted |-> <<>>,
            after |-> <<>>]

(***************************************************************************)
(* Status Reporter                                                         *)
(***************************************************************************)
TabAbsent == [exists |-> FALSE, cells |-> <<>>]
TabWithHeader == [exists |-> TRUE, cells |-> <<"HEADER">>]
\* The spreadsheet calls of append_to_google_sheet, in order: 1 get, 2
\* batchUpdate(addSheet), 3 append of the header, 4 append of the data row.
\* fail_at is the call that raises (0: none); a call that is not made cannot.
ApiCalls == 0..4

\* append_to_google_sheet(tab name, status, id) on the tab t: the tab
\* afterwards, whether the data row was appended, whether a call raised, and
\* whether the function ended in sys.exit(1).  (The first definition is the
\* variant without the final `if status == "FAILURE": sys.exit(1)`, the
\* second the variant whose except branch does not exit.)
append_without_failure_exit(t, st, fail_at) ==
    LET created == [exists |-> TRUE, cells |-> <<>>]
        t2 == IF t.exists THEN t ELSE TabWithHeader
        stop(tb) == [tab |-> tb, appended |-> FALSE, failed |-> TRUE, exits |-> TRUE]
    IN IF fail_at = 1 THEN stop(t)
       ELSE IF ~t.exists /\ fail_at = 2 THEN stop(t)
       ELSE IF ~t.exists /\ fail_at = 3 THEN stop(created)
       ELSE IF fail_at = 4 THEN stop(t2)
       ELSE [tab |-> [t2 EXCEPT !.cells = Append(@, st)], appended |-> TRUE,
             failed |-> FALSE, exits |-> FALSE]
append_without_error_exit(t, st, fail_at) ==
    LET created == [exists |-> TRUE, cells |-> <<>>]
        t2 == IF t.exists THEN t ELSE TabWithHeader
        stop(tb) == [tab |-> tb, appended |-> FALSE, failed |-> TRUE,
                     exits |-> (st = "FAILURE")]
    IN IF fail_at = 1 THEN stop(t)
       ELSE IF ~t.exists /\ fail_at = 2 THEN stop(t)
       ELSE IF ~t.exists /\ fail_at = 3 THEN stop(created)
       ELSE IF fail_at = 4 THEN stop(t2)
       ELSE [tab |-> [t2 EXCEPT !.cells = Append(@, st)], appended |-> TRUE,
             failed |-> FALSE, exits |-> (st = "FAILURE")]
append_to_google_sheet(t, st, fail_at) ==
    LET created == [exists |-> TRUE, cells |-> <<>>]
        t2 == IF t.exists THEN t ELSE TabWithHeader
        stop(tb) == [tab |-> tb, appended |-> FALSE, failed |-> TRUE, exits |-> TRUE]
    IN IF fail_at = 1 THEN stop(t)
       ELSE IF ~t.exists /\ fail_at = 2 THEN stop(t)
       ELSE IF ~t.exists /\ fail_at = 3 THEN stop(created)
       ELSE IF fail_at = 4 THEN stop(t2)
       ELSE [tab |-> [t2 EXCEPT !.cells = Append(@, st)], appended |-> TRUE,
             failed |-> FALSE, exits |-> (st = "FAILURE")]

\* A call append_to_google_sheet(log_sheet_tab_name, st, spreadsheet_id) of
\* the main loop: the process ends with code 1 when the function exits, and
\* goes on at next_pc when it returns (next_pc = "exited": a sys.exit(1)
\* follows the call).
Report(st, fail_at, next_pc) ==
    LET r == append_to_google_sheet(tab, st, fail_at)
    IN /\ tab' = r.tab
       /\ rows' = IF r.appended THEN Append(rows, <<job, st>>) ELSE rows
       /\ api_failed' = (api_failed \/ r.failed)
       /\ IF r.exits \/ next_pc = "exited"
          THEN pc' = "exited" /\ exit_code' = 1
          ELSE pc' = next_pc /\ exit_code' = exit_code

(***************************************************************************)
(* Inputs                                                                  *)
(***************************************************************************)
BackupTypes == {"dhcp", "unifi", "printers"}
Configs ==
    {c \in UNION {[1..n -> BackupTypes] : n \in 0..MaxJobs} :
        \A i, j \in DOMAIN c : i # j => c[i] # c[j]}

\* The local file systems a job of a type may find.
FsFor(backup_type) ==
    IF backup_type = "unifi"
    THEN {[NoDirs EXCEPT ![UnifiPaths[1]] = d1, ![UnifiPaths[2]] = d2] :
             d1 \in DirStates, d2 \in {"absent", "fresh"}}
    ELSE IF backup_type \in SheetTypes
         THEN {NoDirs,
               [NoDirs EXCEPT ![get_backup_source(backup_type, NoDirs)] = "empty"]}
         ELSE {NoDirs}

Init ==
    /\ pc = "start"
    /\ runs = 0
    /\ exit_code = "none"
    /\ status = "UNKNOWN"
    /\ logs = NoLogs
    /\ script_file \in LocalScripts
    /\ remote_script \in RemoteScripts
    /\ stale = FALSE
    /\ updates = 0
    /\ backup_types \in Configs
    /\ job = 0
    /\ fs = NoDirs
    /\ source = NoSource
    /\ scratch = {}
    /\ archived = {}
    /\ remote = <<>>
    /\ tab = TabAbsent
    /\ rows = <<>>
    /\ api_failed = FALSE
    /\ upload = "none"
    /\ prune_log = NoPrune
    /\ alias = "unchecked"
    /\ remote_script_content = Unset

(***************************************************************************)
(* The process                                                             *)
(***************************************************************************)
\* __main__ up to time.sleep: status = "UNKNOWN", rotate_logs(), the version line
\* and the random sleep.  `bound` caps the number of process starts.
Start(bound) ==
    /\ pc = "start"
    /\ runs < bound
    /\ runs' = runs + 1
    /\ status' = "UNKNOWN"
    /\ logs' = rotate_logs(logs, runs + 1)
    /\ pc' = "check_commands"
    /\ job' = 0
    /\ stale' = FALSE
    /\ source' = NoSource
    /\ archived' = {}
    /\ rows' = <<>>
    /\ api_failed' = FALSE
    /\ upload' = "none"
    /\ prune_log' = NoPrune
    /\ alias' = "unchecked"
    /\ remote_script_content' = Unset
    /\ UNCHANGED <<exit_code, script_file, remote_script, updates, backup_types,
                   fs, scratch, remote, tab>>

\* check_command("rclone") and the imports, which install what is missing:
\* a failing apt raises out of the script.
CheckCommands ==
    /\ pc = "check_commands"
    /\ \E ok \in BOOLEAN :
          IF ok THEN pc' = "self_update" /\ exit_code' = exit_code
          ELSE pc' = "exited" /\ exit_code' = 1
    /\ UNCHANGED <<runs, status, logs, script_file, remote_script, stale, updates,
                   backup_types, job, fs, source, scratch, archived, remote, tab,
                   rows, api_failed, upload, prune_log, alias, remote_script_content>>

\* self_update_script() up to the log line before os.execv.  (The first
\* definition is the variant that goes on with the run after the overwrite
\* instead of calling os.execv.)
SelfUpdateWithoutExec ==
    /\ pc = "self_update"
    /\ \E fetched \in BOOLEAN :
          LET u == self_update_script(script_file,
                                      get_remote_script_content(fetched))
          IN /\ remote_script_content' = get_remote_script_content(fetched)
             /\ script_file' = u.file
             /\ IF u.write
                THEN updates' = updates + 1 /\ stale' = TRUE
                ELSE updates' = updates /\ stale' = stale
             /\ pc' = "load_config"
    /\ UNCHANGED <<runs, exit_code, status, logs, remote_script, backup_types, job,
                   fs, source, scratch, archived, remote, tab, rows, api_failed,
                   upload, prune_log, alias>>
SelfUpdate ==
    /\ pc = "self_update"
    /\ \E fetched \in BOOLEAN :
          LET u == self_update_script(script_file,
                                      get_remote_script_content(fetched))
          IN /\ remote_script_content' = get_remote_script_content(fetched)
             /\ script_file' = u.file
             /\ IF u.write
                THEN updates' = updates + 1 /\ stale' = TRUE /\ pc' = "execv"
                ELSE updates' = updates /\ stale' = stale /\ pc' = "load_config"
    /\ UNCHANGED <<runs, exit_code, status, logs, remote_script, backup_types, job,
                   fs, source, scratch, archived, remote, tab, rows, api_failed,
                   upload, prune_log, alias>>

\* os.execv(sys.executable, [sys.executable, CURRENT_SCRIPT_PATH]): the
\* process image is replaced and the script starts from its first line.
ReExec ==
    /\ pc = "execv"
    /\ pc' = "start"
    /\ stale' = FALSE
    /\ UNCHANGED <<runs, exit_code, status, logs, script_file, remote_script,
                   updates, backup_types, job, fs, source, scratch, archived,
                   remote, tab, rows, api_failed, upload, prune_log,
                   alias, remote_script_content>>

\* load_config() and the check of the credentials file: either file missing
\* is sys.exit(1).
LoadConfig ==
    /\ pc = "load_config"
    /\ \E ok \in BOOLEAN :
          IF ok THEN pc' = "job_begin" /\ job' = 1 /\ exit_code' = exit_code
          ELSE pc' = "exited" /\ job' = job /\ exit_code' = 1
    /\ UNCHANGED <<runs, status, logs, script_file, remote_script, stale, updates,
                   backup_types, fs, source, scratch, archived, remote, tab, rows,
                   api_failed, upload, prune_log, alias, remote_script_content>>

\* The head of one iteration of `for backup_type in backup_types`: the exec()
\* of the spreadsheet id, which raises NameError for a type the module has no
\* id for, and the names of the job.  The job's directories, destination and
\* tab are what the environment holds at that moment.
JobBeginWith(tabs) ==
    /\ pc = "job_begin"
    /\ job <= Len(backup_types)
    /\ upload' = "none"
    /\ prune_log' = NoPrune
    /\ IF backup_types[job] \notin SheetTypes
       THEN /\ pc' = "exited"
            /\ exit_code' = 1
            /\ UNCHANGED <<fs, remote, tab>>
       ELSE /\ pc' = "check_remote"
            /\ exit_code' = exit_code
            /\ fs' \in FsFor(backup_types[job])
            /\ remote' \in Listings
            /\ tab' \in tabs
    /\ UNCHANGED <<runs, status, logs, script_file, remote_script, stale, updates,
                   backup_types, job, source, scratch, archived, rows, api_failed,
                   alias, remote_script_content>>

\* The job's tab is either missing or in order when the job begins.
JobBegin == JobBeginWith({TabAbsent, TabWithHeader})
\* The job's tab is as the previous invocation left it.
JobBeginSameTab == JobBeginWith({tab})

\* sys.exit(0) after the loop
Finish ==
    /\ pc = "job_begin"
    /\ job > Len(backup_types)
    /\ pc' = "exited"
    /\ exit_code' = 0
    /\ UNCHANGED <<runs, status, logs, script_file, remote_script, stale, updates,
                   backup_types, job, fs, source, scratch, archived, remote, tab,
                   rows, api_failed, upload, prune_log, alias, remote_script_content>>

\* `Check if rclone remote exists`
CheckRemote ==
    /\ pc = "check_remote"
    /\ \E configured \in BOOLEAN, fail_at \in ApiCalls :
          IF configured
          THEN /\ alias' = "configured"
               /\ pc' = "check_source"
               /\ UNCHANGED <<status, tab, rows, api_failed, exit_code>>
          ELSE /\ alias' = "missing"
               /\ status' = "FAILURE"
               /\ Report("FAILURE", fail_at, "check_source")
    /\ UNCHANGED <<runs, logs, script_file, remote_script, stale, updates,
                   backup_types, job, fs, source, scratch, archived, remote,
                   upload, prune_log,
                   remote_script_content>>

\* `Check backup source`
CheckSource ==
    /\ pc = "check_source"
    /\ source' = get_backup_source(backup_types[job], fs)
    /\ \E fail_at \in ApiCalls :
          IF source' = NoSource \/ IsErrorText(source')
          THEN /\ status' = "FAILURE"
               /\ Report("FAILURE", fail_at, "compress")
          ELSE IF isdir(fs, source')
               THEN /\ pc' = "compress"
                    /\ UNCHANGED <<status, tab, rows, api_failed, exit_code>>
               ELSE /\ status' = "FAILURE"
                    /\ Report("FAILURE", fail_at, "exited")
    /\ UNCHANGED <<runs, logs, script_file, remote_script, stale, updates,
                   backup_types, job, fs, scratch, archived, remote, upload,
                   prune_log, alias, remote_script_content>>

\* `Compress source directory`: compress_source(source) returns the path of
\* the archive, or tar exits non-zero (it cannot read a source that is no
\* path), in which case it may leave the file it was writing behind.  (The first definition is the variant whose
\* except branch reports without assigning status first.)
CompressKeepsStatus ==
    /\ pc = "compress"
    /\ \E ok \in BOOLEAN, left \in BOOLEAN, fail_at \in ApiCalls :
          IF ok /\ source \in Paths
          THEN /\ scratch' = scratch \cup {job}
               /\ archived' = archived \cup {job}
               /\ pc' = "upload"
               /\ UNCHANGED <<status, tab, rows, api_failed, exit_code>>
          ELSE /\ scratch' = IF left THEN scratch \cup {job} ELSE scratch
               /\ archived' = archived
               /\ status' = status
               /\ Report(status, fail_at, "manage")
    /\ UNCHANGED <<runs, logs, script_file, remote_script, stale, updates,
                   backup_types, job, fs, source, remote, upload, prune_log,
                   alias, remote_script_content>>
Compress ==
    /\ pc = "compress"
    /\ \E ok \in BOOLEAN, left \in BOOLEAN, fail_at \in ApiCalls :
          IF ok /\ source \in Paths
          THEN /\ scratch' = scratch \cup {job}
               /\ archived' = archived \cup {job}
               /\ pc' = "upload"
               /\ UNCHANGED <<status, tab, rows, api_failed, exit_code>>
          ELSE /\ scratch' = IF left THEN scratch \cup {job} ELSE scratch
               /\ archived' = archived
               /\ status' = "FAILURE"
               /\ Report("FAILURE", fail_at, "manage")
    /\ UNCHANGED <<runs, logs, script_file, remote_script, stale, updates,
                   backup_types, job, fs, source, remote, upload, prune_log,
                   alias, remote_script_content>>

\* The `finally: os.remove(compressed_file)` of the upload, for job j.  (The
\* first definition is the variant that removes the file after a successful
\* copy only.)
remove_after_copy(files, j, ok) == IF ok THEN files \ {j} ELSE files
remove_compressed_file(files, j, ok) == files \ {j}

\* `Copy backup to destination`, with its except and finally
Upload ==
    /\ pc = "upload"
    /\ \E ok \in BOOLEAN, fail_at \in ApiCalls :
          /\ scratch' = remove_compressed_file(scratch, job, ok)
          /\ IF ok
             THEN /\ remote' = Append(remote, ArchiveName(Len(remote) + 1))
                  /\ status' = "SUCCESS"
                  /\ upload' = "ok"
                  /\ pc' = "manage"
                  /\ UNCHANGED <<tab, rows, api_failed, exit_code>>
             ELSE /\ remote' = remote
                  /\ status' = "FAILURE"
                  /\ upload' = "failed"
                  /\ Report("FAILURE", fail_at, "manage")
    /\ UNCHANGED <<runs, logs, script_file, remote_script, stale, updates,
                   backup_types, job, fs, source, archived, prune_log,
                   alias, remote_script_content>>

\* `Manage backups`.  (The first definition is the variant in which a failed
\* listing or delete marks the job as failed.)
ManageBackupsMarksFailure ==
    /\ pc = "manage"
    /\ \E listed \in BOOLEAN,
          fail_at \in 0..Max(0, Len(remote) - BACKUP_KEEP_COUNT) :
          /\ prune_log' = manage_backups(remote, listed, fail_at)
          /\ remote' = prune_log'.after
          /\ status' = IF listed /\ prune_log'.attempted = prune_log'.deleted
                       THEN status ELSE "FAILURE"
    /\ pc' = "report"
    /\ UNCHANGED <<runs, exit_code, logs, script_file, remote_script,
                   stale, updates, backup_types, job, fs, source, scratch,
                   archived, tab, rows, api_failed, upload, alias,
                   remote_script_content>>
ManageBackups ==
    /\ pc = "manage"
    /\ \E listed \in BOOLEAN,
          fail_at \in 0..Max(0, Len(remote) - BACKUP_KEEP_COUNT) :
          /\ prune_log' = manage_backups(remote, listed, fail_at)
          /\ remote' = prune_log'.after
    /\ pc' = "report"
    /\ UNCHANGED <<runs, exit_code, status, logs, script_file, remote_script,
                   stale, updates, backup_types, job, fs, source, scratch,
                   archived, tab, rows, api_failed, upload, alias, remote_script_content>>

\* `Log success/failure to Google Sheet`, the last statement of the loop body
ReportJob ==
    /\ pc = "report"
    /\ \E fail_at \in ApiCalls : Report(status, fail_at, "job_begin")
    /\ job' = IF pc' = "job_begin" THEN job + 1 ELSE job
    /\ UNCHANGED <<runs, status, logs, script_file, remote_script, stale, updates,
                   backup_types, fs, source, scratch, archived, remote, upload,
                   prune_log, alias, remote_script_content>>

\* The scheduler starts the script again after it has ended.
Restart ==
    /\ pc = "exited"
    /\ pc' = "start"
    /\ exit_code' = "none"
    /\ updates' = 0
    /\ UNCHANGED <<runs, status, logs, script_file, remote_script, stale,
                   backup_types, job, fs, source, scratch, archived, remote, tab,
                   rows, api_failed, upload, prune_log, alias, remote_script_content>>

Steps ==
    \/ CheckCommands
    \/ SelfUpdate
    \/ ReExec
    \/ LoadConfig
    \/ JobBegin
    \/ Finish
    \/ CheckRemote
    \/ CheckSource
    \/ Compress
    \/ Upload
    \/ ManageBackups
    \/ ReportJob

\* One invocation of the script, for every configuration.
Next == Start(MaxRuns) \/ Steps
Spec == Init /\ [][Next]_vars

\* Repeated invocations of the script with one configuration, whose first
\* invocation finds a newer remote script.
RunsInit ==
    /\ Init
    /\ script_file = V1
    /\ remote_script = V2
    /\ backup_types = <<"dhcp">>
RunsNext == Start(MaxLogRuns) \/ Steps \/ Restart
RunsSpec == RunsInit /\ [][RunsNext]_vars

\* Repeated invocations of the script with one configuration, writing to the
\* one tab of its job: the tab starts missing and is changed by the reporter
\* only.
SheetNext ==
    \/ Start(MaxRuns)
    \/ CheckCommands
    \/ SelfUpdate
    \/ ReExec
    \/ LoadConfig
    \/ JobBeginSameTab
    \/ Finish
    \/ CheckRemote
    \/ CheckSource
    \/ Compress
    \/ Upload
    \/ ManageBackups
    \/ ReportJob
    \/ Restart
SheetSpec == RunsInit /\ [][SheetNext]_vars

\* The Source Locator on its own: a process that is about to resolve the
\* source of a unifi job, for every state of the five candidate directories.
UnifiDirs ==
    {[p \in Paths |-> IF \E i \in 1..Len(UnifiPaths) : UnifiPaths[i] = p
                      THEN d[CHOOSE i \in 1..Len(UnifiPaths) : UnifiPaths[i] = p]
                      ELSE "absent"] : d \in [1..Len(UnifiPaths) -> DirStates]}
LocateInit ==
    /\ pc = "check_source"
    /\ runs = 1
    /\ exit_code = "none"
    /\ status = "UNKNOWN"
    /\ logs = rotate_logs(NoLogs, 1)
    /\ script_file = V1
    /\ remote_script = V1
    /\ stale = FALSE
    /\ updates = 0
    /\ backup_types = <<"unifi">>
    /\ job = 1
    /\ fs \in UnifiDirs
    /\ source = NoSource
    /\ scratch = {}
    /\ archived = {}
    /\ remote = <<>>
    /\ tab \in {TabAbsent, TabWithHeader}
    /\ rows = <<>>
    /\ api_failed = FALSE
    /\ upload = "none"
    /\ prune_log = NoPrune
    /\ alias = "configured"
    /\ remote_script_content = V1
LocateNext == CheckSource
LocateSpec == LocateInit /\ [][LocateNext]_vars

(***************************************************************************)
(* Properties                                                              *)
(***************************************************************************)
JobPcs == {"job_begin", "check_remote", "check_source", "compress", "upload",
           "manage", "report"}
FailureRow == \E k \in 1..Len(rows) : rows[k][2] = "FAILURE"
SuccessRow(j) == \E k \in 1..Len(rows) : rows[k] = <<j, "SUCCESS">>
FirstOf(seq, n) == SubSeq(seq, 1, Min(Max(n, 0), Len(seq)))

\* C1: when the upload of a job has failed, the retention step of that job
\* (list the destination, delete the excess oldest) has been attempted by
\* the time the job is reported, the next job begins or the process ends.
C1_PruneAfterFailedUpload ==
    (upload = "failed" /\ pc \in {"report", "job_begin", "exited"})
        => prune_log.done

\* C2: when the destination was listed, with `existing` its files that start
\* with the job's name prefix, oldest first, the retention step has issued
\* the delete of exactly the first max(0, n - keep_count) of them, in order,
\* and every other file is still at the destination.  (Stated for the
\* destinations where the files that contain the name are the files that
\* start with it, which is where the filter of rclone_list_files and the
\* prefix agree.)
C2_PruneExact ==
    LET existing == SelectSeq(prune_log.before,
                              LAMBDA line : StartsWith(site_backup_name, line))
        oldest == FirstOf(existing, Len(existing) - BACKUP_KEEP_COUNT)
    IN (prune_log.done /\ prune_log.listed /\ prune_log.files_present = existing)
           => /\ prune_log.attempted = oldest
              /\ Range(prune_log.before) \ Range(oldest)
                     \subseteq Range(prune_log.after)

\* C3: the retention step attempts the delete of every excess archive, also
\* after a delete that failed.
C3_DeletesContinue ==
    prune_log.done =>
        prune_log.attempted =
            FirstOf(prune_log.files_present,
                    Len(prune_log.files_present) - BACKUP_KEEP_COUNT)

\* C4: every job begins with status UNKNOWN, and the status changes only
\* from UNKNOWN to SUCCESS or from UNKNOWN to FAILURE (so at most once per
\* job, and never from FAILURE to SUCCESS).
C4_Step ==
    /\ (pc = "job_begin" /\ pc' = "check_remote") => status' = "UNKNOWN"
    /\ (pc \in JobPcs /\ status' # status) =>
           (status = "UNKNOWN" /\ status' \in {"SUCCESS", "FAILURE"})
C4_StatusOnce == [][C4_Step]_vars

\* C5: the process exits with code 0 only if a SUCCESS row was appended for
\* every configured backup type, and with a non-zero code if a FAILURE row
\* was appended or a spreadsheet call failed.
C5_ExitCode ==
    pc = "exited" =>
        /\ (exit_code = 0 =>
               ((\A j \in 1..Len(backup_types) : SuccessRow(j))
                   /\ job = Len(backup_types) + 1))
        /\ ((FailureRow \/ api_failed) => exit_code = 1)
C5_Witness ==
    pc = "exited" /\ exit_code = 0 /\ Len(backup_types) = 2 /\ Len(rows) = 2

\* C6: the step that appends a FAILURE row ends the process with exit code
\* 1 and with the local archive of the job removed, and no step is taken
\* once a FAILURE row has been appended.
C6_Step ==
    /\ ~FailureRow
    /\ FailureRow' =>
           (pc' = "exited" /\ exit_code' = 1 /\ archived' \cap scratch' = {})
C6_FailureStops == [][C6_Step]_vars
C6_Witness ==
    FailureRow /\ upload = "failed" /\ pc = "exited" /\ job = 2

C8_Step ==
    /\ (pc = "self_update"
          /\ sha256(read_text(script_file)) = sha256(remote_script))
        => (script_file' = script_file /\ pc' # "execv")
    /\ (pc = "self_update" /\ pc' = "execv")
        => (script_file' = remote_script /\ updates' = 1)
C8_SelfUpdateOnce == [][C8_Step]_vars

\* C9: a process that found its script to differ from the fetched remote
\* script is at os.execv and nowhere else, and a process that is at a job
\* step found no difference and rotated the log itself when it started.
C9_UpdateBeforeJobs ==
    /\ stale => pc = "execv"
    /\ pc \in JobPcs => (~stale /\ logs[0] = runs)
C9_Witness == updates = 1 /\ runs = 2 /\ pc = "check_remote"

\* C10: starting with no log files, after r runs LOG_FILE holds the log of
\* run r and LOG_FILE.i the log of run r - i, for the i in 1..10 with
\* r - i >= 1, and no other archive exists: 10 archives after 11 runs and
\* after every later run, the log of run r - 11 being discarded.
C10_LogRotation ==
    /\ runs = 0 => logs = NoLogs
    /\ runs >= 1 =>
           /\ logs[0] = runs
           /\ \A i \in 1..MAX_LOG_ARCHIVES :
                  logs[i] = IF runs - i >= 1 THEN runs - i ELSE 0
C10_Witness ==
    runs = MAX_LOG_ARCHIVES + 2 /\ logs[MAX_LOG_ARCHIVES] = 2 /\ logs[1] = runs - 1

\* C11: for a unifi job the Source Locator returns the first candidate
\* directory that exists and holds a backup file modified in the last seven
\* days; a candidate that exists without such a file does not end the search;
\* and the "no recent backups" error is returned only when no candidate holds
\* such a file.  (A candidate whose listing raises ends the search with the
\* detection error, which is a different result.)
Fresh == {i \in 1..Len(UnifiPaths) : fs[UnifiPaths[i]] = "fresh"}
Broken == {i \in 1..Len(UnifiPaths) : fs[UnifiPaths[i]] = "broken"}
FirstFresh == CHOOSE i \in Fresh : \A k \in Fresh : i <= k
C11_Locator ==
    (pc # "check_source" /\ backup_types[job] = "unifi") =>
        /\ (source = ErrNoRecent) => (Fresh = {})
        /\ (Fresh = {} /\ Broken = {}) => (source = ErrNoRecent)
        /\ (Fresh # {} /\ \A k \in Broken : k > FirstFresh)
              => (source = UnifiPaths[FirstFresh])
C11_Witness ==
    /\ pc = "compress"
    /\ backup_types[job] = "unifi"
    /\ fs[UnifiPaths[1]] = "empty"
    /\ fs[UnifiPaths[2]] = "absent"
    /\ fs[UnifiPaths[3]] = "fresh"
    /\ source = UnifiPaths[3]

\* C12: when the rclone remote alias is not configured, every configured
\* backup type ends with status FAILURE (its FAILURE row is appended, the
\* spreadsheet API permitting), and no archive is made or uploaded for any
\* of them.
C12_AllJobsFailFast ==
    (alias = "missing" /\ pc = "exited" /\ ~api_failed) =>
        /\ \A j \in 1..Len(backup_types) :
              \E k \in 1..Len(rows) : rows[k] = <<j, "FAILURE">>
        /\ archived = {}
        /\ upload = "none"

\* C13: a job whose backup type is not a recognised one ends with status
\* FAILURE and with its FAILURE row appended before the process exits (the
\* spreadsheet API permitting), and nothing is archived or uploaded for it.
C13_UnknownTypeReported ==
    (/\ pc = "exited"
     /\ job \in 1..Len(backup_types)
     /\ backup_types[job] \notin SheetTypes
     /\ ~api_failed) =>
        /\ status = "FAILURE"
        /\ \E k \in 1..Len(rows) : rows[k] = <<job, "FAILURE">>
        /\ job \notin archived
        /\ upload = "none"

\* C14: the steps of a job happen in the order source resolution, compress,
\* upload, prune, report: the archive is made only from a source that was
\* resolved to a directory, the upload is attempted only after the archive
\* was made, pruning only after the upload and the closing report only after
\* pruning; a job that ends by a failed source resolution or compression has
\* status FAILURE and no upload was attempted for it.
CurrentJob ==
    IF pc = "job_begin" \/ (pc = "exited" /\ exit_code = 0) THEN job - 1
    ELSE job
C14_StepOrder ==
    /\ pc \in {"compress", "upload", "manage", "report"} =>
          /\ source = get_backup_source(backup_types[job], fs)
          /\ isdir(fs, source)
    /\ pc \in {"upload", "manage", "report"} => job \in archived
    /\ upload # "none" => (CurrentJob \in archived /\ isdir(fs, source))
    /\ prune_log.done => upload # "none"
    /\ pc = "report" => prune_log.done
    /\ (/\ pc = "exited"
        /\ job \in 1..Len(backup_types)
        /\ backup_types[job] \in SheetTypes
        /\ job \notin archived) => (status = "FAILURE" /\ upload = "none")
C14_Witness ==
    /\ pc = "report"
    /\ job = 2
    /\ upload = "ok"
    /\ prune_log.done
    /\ prune_log.deleted # <<>>

\* C15: once a spreadsheet call of the reporter has raised (listing the tabs,
\* creating the tab, appending the header or appending the row), the process
\* has ended with a non-zero exit code and no later backup type is processed
\* (no row of the job at hand or of a later one exists), whatever the status.
C15_ApiFailureStops ==
    api_failed =>
        /\ pc = "exited"
        /\ exit_code = 1
        /\ job \in 1..Len(backup_types)
        /\ \A k \in 1..Len(rows) : rows[k][1] < job
C15_Witness ==
    /\ api_failed
    /\ status = "SUCCESS"
    /\ upload = "ok"
    /\ job = 1
    /\ Len(backup_types) = 2
    /\ pc = "exited"

\* C16: over any sequence of invocations, a tab that holds a data row holds
\* the header as its first row: no data row is ever appended to a tab
\* without the header.
C16_HeaderBeforeRows ==
    tab.cells # <<>> => tab.cells[1] = "HEADER"

\* C17: a failed listing or a failed delete in the retention step leaves the
\* status of the job as the upload set it: the job still has status SUCCESS,
\* its SUCCESS row is appended (the spreadsheet API permitting), the loop goes
\* on to the next type, and the process does not exit non-zero for it.
PruneFailed ==
    /\ prune_log.done
    /\ ~prune_log.listed \/ prune_log.attempted # prune_log.deleted
C17_PruneFailureKeepsStatus ==
    PruneFailed =>
        /\ status = "SUCCESS"
        /\ pc \in {"report", "job_begin", "exited"}
        /\ (pc \in {"job_begin", "exited"} /\ ~api_failed)
              => SuccessRow(CurrentJob)
        /\ pc = "exited" => (api_failed \/ exit_code = 0)
C17_Witness ==
    /\ pc = "exited"
    /\ exit_code = 0
    /\ prune_log.done
    /\ prune_log.attempted # prune_log.deleted
    /\ SuccessRow(1)
    /\ SuccessRow(2)

\* C18: when the download of the remote script fails, or returns an empty
\* text, the self-updater changes nothing: the script file is not written,
\* the process is not re-executed, and the run goes on to load the
\* configuration and process the jobs.
C18_Step ==
    (pc = "self_update" /\ remote_script_content' \in {None, <<>>}) =>
        /\ script_file' = script_file
        /\ updates' = updates
        /\ stale' = stale
        /\ pc' = "load_config"
C18_NoContentNoUpdate == [][C18_Step]_vars
C18_Witness ==
    /\ remote_script_content = None
    /\ read_text(script_file) # remote_script
    /\ remote_script # <<>>
    /\ updates = 0
    /\ runs = 1
    /\ pc = "report"

\* C19: within one invocation at most one data row is appended per job; and
\* every job that has begun has exactly one row once the next job starts or
\* the process has exited, provided no spreadsheet call has raised.
RowCount(j) == Cardinality({k \in 1..Len(rows) : rows[k][1] = j})
JobsEnded ==
    1..(IF pc = "exited" THEN Min(job, Len(backup_types)) ELSE job - 1)
C19_OneRowPerJob ==
    /\ \A j \in 1..Len(backup_types) : RowCount(j) <= 1
    /\ ~api_failed => \A j \in JobsEnded : RowCount(j) = 1

\* C20: a SUCCESS row is appended for a job only when the upload of that very
\* job has succeeded in this invocation: the row names the job at hand, whose
\* archive was made and copied.  The SUCCESS of an earlier job is never
\* reported for a later job.
C20_Step ==
    (Len(rows') = Len(rows) + 1 /\ rows'[Len(rows')][2] = "SUCCESS") =>
        /\ rows'[Len(rows')][1] = job
        /\ job \in archived
        /\ upload = "ok"
        /\ pc = "report"
C20_SuccessIsOwn == [][C20_Step]_vars
C20_Witness ==
    /\ rows = <<<<1, "SUCCESS">>, <<2, "FAILURE">>>>
    /\ job = 2
    /\ upload = "none"
    /\ source \in Paths
    /\ pc = "exited"

====
